---- MODULE Spec2Model ----
(***************************************************************************)
(* Flash-sale bidding engine: bid ingestion and scoring, the Redis        *)
(* leaderboard, the durable bid/order tables, the three-tier campaign     *)
(* cache and end-of-campaign settlement.                                  *)
(*                                                                         *)
(* Numbers are fixed point.  Prices are counted in 1/1000 (a Decimal with *)
(* three places), coefficients in 1/100000, weights in 1/100 and scores   *)
(* in 1/1000000, so that the NUMERIC(p,s) columns of the durable store    *)
(* round what the services hand them.                                     *)
(***************************************************************************)
EXTENDS Integers, Sequences, FiniteSets, TLC

\* ------------------------------------------------------------------ bounds
Users == {"u1", "u2", "u3"}
Reqs == {"r1", "r2", "r3"}
Procs == {"p1", "p2"}
MaxTime == 2
MaxStock == 2

\* ------------------------------------------------- fixed-point resolutions
PriceScale == 10
CoeffScale == 10
ScoreScale == 100

\* weight of each user, in 1/100 (users.weight NUMERIC(10,2), immutable)
Weight(u) == IF u = "u1" THEN 100 ELSE IF u = "u2" THEN 100 ELSE 200

VARIABLES
    now,            \* wall clock, in ms ticks
    dbProduct,      \* products row: <<>> or <<[stock, min_price, version]>>
    dbCampaign,     \* campaigns row: <<>> or <<[start, end, alpha, beta, gamma, quota, status]>>
    dbBids,         \* committed bids rows, keyed by user
    dbOrders,       \* committed orders rows
    kvRanking,      \* sorted set bid:<campaign>, member -> score
    kvDetails,      \* hashes bid_details:<campaign>:<user>, user -> price
    kvStock,        \* stock:<product>: <<>> or <<n>>
    kvLock,         \* lock:product:<product>: <<>> or <<owner>>
    kvCampaign,     \* hash campaign:<id>: <<>> or <<fields>>
    kvCampaignTtl,  \* TRUE when the campaign hash carries a TTL
    kvMaxPrice,     \* campaign:<id>:max_price: <<>> or <<price>>
    localCache,     \* _campaign_local_cache entry: <<>> or <<typed view>>
    req,            \* in-flight submit_bid requests
    st,             \* settle_campaign executions (one per poller process)
    active_connections, \* ConnectionManager.active_connections: room -> user -> socket
    hubLock,        \* ConnectionManager._lock: <<>> or <<socket whose task holds it>>
    sock,           \* every WebSocket and the position of its endpoint task
    bcast,          \* the broadcast_to_campaign call in flight
    poll            \* settlement_check_loop passes (one per poller process)

vars == <<now, dbProduct, dbCampaign, dbBids, dbOrders, kvRanking, kvDetails,
          kvStock, kvLock, kvCampaign, kvCampaignTtl, kvMaxPrice, localCache,
          req, st, active_connections, hubLock, sock, bcast, poll>>

hubVars == <<active_connections, hubLock, sock, bcast>>
dbVars == <<dbProduct, dbCampaign, dbBids, dbOrders>>
kvBidVars == <<kvRanking, kvDetails, kvMaxPrice>>
kvInvVars == <<kvStock, kvLock>>
cacheVars == <<kvCampaign, kvCampaignTtl, localCache>>

\* ----------------------------------------------------------------- helpers
Max(a, b) == IF a >= b THEN a ELSE b
Abs(a) == IF a >= 0 THEN a ELSE 0 - a

\* NUMERIC(p,s) assignment: round half up to a multiple of q (values >= 0)
RoundTo(x, q) == ((x + q \div 2) \div q) * q

\* partial-function update  f[k] := v
Put(f, k, v) == [x \in DOMAIN f \cup {k} |-> IF x = k THEN v ELSE f[x]]

\* ------------------------------------------------------ Redis sorted set
\* lexicographic position of a member (Redis breaks score ties by member)
UserIdx(u) == IF u = "u1" THEN 1 ELSE IF u = "u2" THEN 2 ELSE 3

\* mutant: a sorted set ordered by score alone
RevBefore_ScoreOnly(zset, v, u) == zset[v] > zset[u]

\* v precedes u in the descending (ZREV*) order of zset
RevBefore(zset, v, u) ==
    \/ zset[v] > zset[u]
    \/ zset[v] = zset[u] /\ UserIdx(v) > UserIdx(u)

\* mutant: ranks taken from the ascending order (ZRANK for ZREVRANK)
ZRevRank_Ascending(zset, u) ==
    Cardinality({v \in DOMAIN zset : RevBefore(zset, u, v)})

\* ZREVRANK key member: 0-based descending position
ZRevRank(zset, u) == Cardinality({v \in DOMAIN zset : RevBefore(zset, v, u)})

\* mutant: the 0-based ZREVRANK handed on without the conversion
get_user_rank_ZeroBased(zset, u) == ZRevRank(zset, u)

\* RedisService.get_user_rank: ZREVRANK + 1
get_user_rank(zset, u) == ZRevRank(zset, u) + 1

\* member at 0-based descending position i
ZRevAt(zset, i) == CHOOSE u \in DOMAIN zset : ZRevRank(zset, u) = i

\* ZREVRANGE key start stop WITHSCORES: negative indexes count from the end
ZRevRange(zset, start, stop) ==
    LET n == Cardinality(DOMAIN zset)
        lo == IF start < 0 THEN Max(n + start, 0) ELSE start
        hi0 == IF stop < 0 THEN n + stop ELSE stop
        hi == IF hi0 >= n THEN n - 1 ELSE hi0
    IN  IF lo > hi \/ lo >= n THEN <<>>
        ELSE [i \in 1..(hi - lo + 1) |->
                 <<ZRevAt(zset, lo + i - 1), zset[ZRevAt(zset, lo + i - 1)]>>]

\* RedisService.get_top_k: ZREVRANGE 0 k-1, then the detail hashes, ranks 1..
get_top_k(zset, details, k) ==
    LET results == ZRevRange(zset, 0, k - 1)
    IN  [i \in 1..Len(results) |->
            [rank |-> i,
             user_id |-> results[i][1],
             score |-> results[i][2],
             price |-> IF results[i][1] \in DOMAIN details
                       THEN <<details[results[i][1]]>> ELSE <<>>]]

\* --------------------------------------------------------------- scoring
\* calculate_score: alpha*price + beta/(time_elapsed_ms + 1) + gamma*weight,
\* in 1/1000000
calculate_score(price, time_elapsed_ms, weight, alpha, beta, gamma) ==
    (alpha * price) \div 100 + (beta * 10) \div (time_elapsed_ms + 1)
        + (gamma * weight) \div 10

\* ----------------------------------------------------- campaign cache views
\* mutant: astimezone(timezone.utc), which shifts the wall clock by the offset
ParseIsoAsUtc_Convert(iso) == iso.wall - iso.off

\* datetime.fromisoformat(s).replace(tzinfo=timezone.utc): keeps the wall
\* clock fields of the string and drops its offset
ParseIsoAsUtc(iso) == iso.wall

\* BidService._convert_campaign_types on a campaign:<id> hash
_convert_campaign_types(data) ==
    [alpha |-> data.alpha, beta |-> data.beta, gamma |-> data.gamma,
     min_price |-> data.min_price,
     start_time |-> ParseIsoAsUtc(data.start_time),
     end_time |-> ParseIsoAsUtc(data.end_time),
     stock |-> data.stock]

\* Campaign.stock as read by the tier-3 path: the quota snapshot
CampaignStock(c) == c.quota

\* the typed view the tier-3 path builds from the campaign row and its product
DurableView ==
    [alpha |-> dbCampaign[1].alpha, beta |-> dbCampaign[1].beta,
     gamma |-> dbCampaign[1].gamma,
     min_price |-> dbProduct[1].min_price,
     start_time |-> dbCampaign[1].start,
     end_time |-> dbCampaign[1].end,
     stock |-> CampaignStock(dbCampaign[1])]

\* now < start / now >= end check shared by the three tiers
WindowError(view) ==
    IF now < view.start_time THEN "CAMPAIGN_NOT_STARTED"
    ELSE IF now >= view.end_time THEN "CAMPAIGN_ENDED"
    ELSE "none"

\* ------------------------------------------------------------ admin CRUD
\* ProductService.create: insert the row, then init_stock
CreateProduct(stock, min_price) ==
    /\ dbProduct = <<>>
    /\ dbProduct' = <<[stock |-> stock,
                       min_price |-> RoundTo(min_price, PriceScale),
                       version |-> 0]>>
    /\ kvStock' = <<stock>>
    /\ UNCHANGED <<now, hubVars, poll, dbCampaign, dbBids, dbOrders, kvBidVars, kvLock,
                   cacheVars, req, st>>

\* create_campaign endpoint + CampaignService.create: the row keeps the wall
\* clock of the submitted instants and NUMERIC(10,4) coefficients; the hash
\* is filled from the request body and the product
CreateCampaign(start, end, off, alpha, beta, gamma) ==
    /\ dbProduct /= <<>>
    /\ dbCampaign = <<>>
    /\ end > start
    /\ dbCampaign' = <<[start |-> start, end |-> end,
                        alpha |-> RoundTo(alpha, CoeffScale),
                        beta |-> RoundTo(beta, CoeffScale),
                        gamma |-> RoundTo(gamma, CoeffScale),
                        quota |-> dbProduct[1].stock,
                        status |-> "pending"]>>
    /\ kvCampaign' = <<[start_time |-> [wall |-> start, off |-> off],
                        end_time |-> [wall |-> end, off |-> off],
                        alpha |-> alpha, beta |-> beta, gamma |-> gamma,
                        min_price |-> dbProduct[1].min_price,
                        stock |-> dbProduct[1].stock]>>
    /\ UNCHANGED <<now, hubVars, poll, dbProduct, dbBids, dbOrders, kvBidVars, kvInvVars,
                   kvCampaignTtl, localCache, req, st>>

\* lifespan startup: pre-warm the hash of a campaign in its window, TTL 1 h
Prewarm ==
    /\ dbCampaign /= <<>>
    /\ dbCampaign[1].start <= now
    /\ dbCampaign[1].end > now
    /\ kvCampaign' = <<[start_time |-> [wall |-> dbCampaign[1].start, off |-> 0],
                        end_time |-> [wall |-> dbCampaign[1].end, off |-> 0],
                        alpha |-> dbCampaign[1].alpha,
                        beta |-> dbCampaign[1].beta,
                        gamma |-> dbCampaign[1].gamma,
                        min_price |-> dbProduct[1].min_price,
                        stock |-> dbProduct[1].stock]>>
    /\ kvCampaignTtl' = TRUE
    /\ UNCHANGED <<now, hubVars, poll, dbVars, kvBidVars, kvInvVars, localCache, req, st>>

\* the campaign hash reaches its TTL
KvCampaignExpire ==
    /\ kvCampaign /= <<>>
    /\ kvCampaignTtl
    /\ kvCampaign' = <<>>
    /\ kvCampaignTtl' = FALSE
    /\ UNCHANGED <<now, hubVars, poll, dbVars, kvBidVars, kvInvVars, localCache, req, st>>

\* TTLCache drops the tier-1 entry after CAMPAIGN_LOCAL_TTL
LocalExpire ==
    /\ localCache /= <<>>
    /\ localCache' = <<>>
    /\ UNCHANGED <<now, hubVars, poll, dbVars, kvBidVars, kvInvVars, kvCampaign,
                   kvCampaignTtl, req, st>>

\* one millisecond passes
Tick ==
    /\ now < MaxTime
    /\ now' = now + 1
    /\ UNCHANGED <<dbVars, kvBidVars, kvInvVars, cacheVars, req, st, hubVars, poll>>

\* the wall clock read by submit_bid has reached t
Elapse(t) ==
    /\ now < t
    /\ now' = t
    /\ UNCHANGED <<dbVars, kvBidVars, kvInvVars, cacheVars, req, st, hubVars, poll>>

\* ------------------------------------------------------------- submit_bid
IdleReq ==
    [pc |-> "idle", user |-> "u1", price |-> 0, view |-> <<>>,
     row |-> <<>>, score |-> 0, commitPending |-> FALSE,
     maxPending |-> FALSE, result |-> "none", rank |-> 0]

\* outcome of the window check of get_campaign_with_validation on a view;
\* submit_bid answers 403 on an error and keeps the view otherwise
Validated(rec, view) ==
    LET err == WindowError(view)
    IN  IF err = "none"
        THEN [rec EXCEPT !.view = <<view>>, !.pc = "params"]
        ELSE [rec EXCEPT !.pc = "done", !.result = err]

\* POST /bids arrives; get_campaign_with_validation looks in the local cache
BidStart(r, u, price) ==
    /\ req[r].pc = "idle"
    /\ LET rec == [req[r] EXCEPT !.user = u, !.price = price]
       IN  req' = [req EXCEPT ![r] =
                IF localCache /= <<>>
                THEN Validated(rec, localCache[1])
                ELSE [rec EXCEPT !.pc = "tier2"]]
    /\ UNCHANGED <<now, hubVars, poll, dbVars, kvBidVars, kvInvVars, cacheVars, st>>

\* local miss: get_cached_campaign; a hit is converted and promoted to tier 1
BidTier2(r) ==
    /\ req[r].pc = "tier2"
    /\ IF kvCampaign /= <<>>
       THEN /\ localCache' = <<_convert_campaign_types(kvCampaign[1])>>
            /\ req' = [req EXCEPT ![r] =
                   Validated(req[r], _convert_campaign_types(kvCampaign[1]))]
       ELSE /\ req' = [req EXCEPT ![r].pc = "tier3"]
            /\ UNCHANGED localCache
    /\ UNCHANGED <<now, hubVars, poll, dbVars, kvBidVars, kvInvVars, kvCampaign,
                   kvCampaignTtl, st>>

\* Redis miss: read the campaign row with its product, promote to tier 1
BidTier3(r) ==
    /\ req[r].pc = "tier3"
    /\ IF dbCampaign = <<>>
       THEN /\ req' = [req EXCEPT ![r].pc = "done",
                                  ![r].result = "CAMPAIGN_NOT_FOUND"]
            /\ UNCHANGED localCache
       ELSE /\ localCache' = <<DurableView>>
            /\ req' = [req EXCEPT ![r] = Validated(req[r], DurableView)]
    /\ UNCHANGED <<now, hubVars, poll, dbVars, kvBidVars, kvInvVars, kvCampaign,
                   kvCampaignTtl, st>>

\* submit_bid reads the scoring parameters from the campaign hash, else from
\* the campaign row
BidParamsOf ==
    IF kvCampaign /= <<>>
    THEN [alpha |-> kvCampaign[1].alpha, beta |-> kvCampaign[1].beta,
          gamma |-> kvCampaign[1].gamma, min_price |-> kvCampaign[1].min_price]
    ELSE [alpha |-> dbCampaign[1].alpha, beta |-> dbCampaign[1].beta,
          gamma |-> dbCampaign[1].gamma, min_price |-> dbProduct[1].min_price]

\* the values of the INSERT ... ON CONFLICT statement built by
\* create_or_update_bid (bid_number is filled in when it executes)
BidValues(r, params) ==
    LET time_elapsed_ms == now - req[r].view[1].start_time
    IN  [price |-> req[r].price,
         score |-> calculate_score(req[r].price, time_elapsed_ms,
                                   Weight(req[r].user), params.alpha,
                                   params.beta, params.gamma),
         time_elapsed_ms |-> time_elapsed_ms,
         bid_number |-> 1]

\* mutant: the price is checked only after the upsert has been executed
BidParams_CheckAfterUpsert(r) ==
    /\ req[r].pc = "params"
    /\ LET params == BidParamsOf
       IN  req' = [req EXCEPT ![r] =
                IF req[r].price < params.min_price
                THEN [req[r] EXCEPT !.pc = "done", !.view = <<>>,
                                    !.row = <<BidValues(r, params)>>,
                                    !.commitPending = TRUE,
                                    !.result = "PRICE_TOO_LOW"]
                ELSE [req[r] EXCEPT !.pc = "upsert", !.view = <<>>,
                                    !.row = <<BidValues(r, params)>>,
                                    !.score = BidValues(r, params).score]]
    /\ UNCHANGED <<now, hubVars, poll, dbVars, kvBidVars, kvInvVars, cacheVars, st>>

\* price check, then create_or_update_bid up to sending the upsert
BidParams(r) ==
    /\ req[r].pc = "params"
    /\ LET params == BidParamsOf
       IN  req' = [req EXCEPT ![r] =
                IF req[r].price < params.min_price
                THEN [req[r] EXCEPT !.pc = "done", !.view = <<>>,
                                    !.result = "PRICE_TOO_LOW"]
                ELSE [req[r] EXCEPT !.pc = "upsert", !.view = <<>>,
                                    !.row = <<BidValues(r, params)>>,
                                    !.score = BidValues(r, params).score]]
    /\ UNCHANGED <<now, hubVars, poll, dbVars, kvBidVars, kvInvVars, cacheVars, st>>

\* the row the upsert produces: NUMERIC(10,2) price, NUMERIC(15,4) score,
\* bid_number 1 on insert and bid_number + 1 on conflict
UpsertRow(old, values) ==
    [price |-> RoundTo(values.price, PriceScale),
     score |-> RoundTo(values.score, ScoreScale),
     time_elapsed_ms |-> values.time_elapsed_ms,
     bid_number |-> IF old = <<>> THEN 1 ELSE old[1].bid_number + 1]

\* mutant: an upsert that does not wait for the row lock (read, then write)
RowLocked_NoWait(r) == FALSE

\* another transaction holds the lock of the (campaign, user) bids row
RowLocked(r) ==
    \E q \in Reqs \ {r} : req[q].commitPending /\ req[q].user = req[r].user

\* the upsert executes in the request's transaction and returns the row;
\* the commit is left to a background task
BidUpsert(r) ==
    /\ req[r].pc = "upsert"
    /\ ~RowLocked(r)
    /\ LET old == IF req[r].user \in DOMAIN dbBids
                  THEN <<dbBids[req[r].user]>> ELSE <<>>
       IN  req' = [req EXCEPT ![r].pc = "kv",
                              ![r].row = <<UpsertRow(old, req[r].row[1])>>,
                              ![r].commitPending = TRUE]
    /\ UNCHANGED <<now, hubVars, poll, dbVars, kvBidVars, kvInvVars, cacheVars, st>>

\* mutant: the failure of the upsert is swallowed and the request goes on
BidUpsertFail_Swallowed(r) ==
    /\ req[r].pc = "upsert"
    /\ req' = [req EXCEPT ![r].pc = "kv", ![r].row = <<>>]
    /\ UNCHANGED <<now, hubVars, poll, dbVars, kvBidVars, kvInvVars, cacheVars, st>>

\* the upsert statement raises (connection lost, statement timeout): the
\* exception leaves create_or_update_bid and submit_bid, the answer is a 500
BidUpsertFail(r) ==
    /\ req[r].pc = "upsert"
    /\ req' = [req EXCEPT ![r].pc = "done", ![r].row = <<>>, ![r].score = 0,
                          ![r].result = "DB_ERROR"]
    /\ UNCHANGED <<now, hubVars, poll, dbVars, kvBidVars, kvInvVars, cacheVars, st>>

\* _safe_commit: the background commit makes the row visible
BidCommit(r) ==
    /\ req[r].commitPending
    /\ dbBids' = Put(dbBids, req[r].user, req[r].row[1])
    /\ req' = [req EXCEPT ![r].commitPending = FALSE, ![r].row = <<>>]
    /\ UNCHANGED <<now, hubVars, poll, dbProduct, dbCampaign, dbOrders, kvBidVars, kvInvVars,
                   cacheVars, st>>

\* mutant: ZREVRANK sent before the ZADD (a missing member reads as None,
\* which create_or_update_bid turns into 0)
BidKv_RankBeforeWrite(r) ==
    /\ req[r].pc = "kv"
    /\ kvRanking' = Put(kvRanking, req[r].user, req[r].score)
    /\ kvDetails' = Put(kvDetails, req[r].user, req[r].price)
    /\ req' = [req EXCEPT ![r].pc = "done", ![r].result = "OK",
                          ![r].score = 0,
                          ![r].rank = IF req[r].user \in DOMAIN kvRanking
                                      THEN get_user_rank(kvRanking, req[r].user)
                                      ELSE 0,
                          ![r].maxPending = TRUE]
    /\ UNCHANGED <<now, hubVars, poll, dbVars, kvMaxPrice, kvInvVars, cacheVars, st>>

\* _safe_commit: the commit raises, the exception is logged and dropped; the
\* transaction's row is lost
BidCommitFail(r) ==
    /\ req[r].commitPending
    /\ req' = [req EXCEPT ![r].commitPending = FALSE, ![r].row = <<>>]
    /\ UNCHANGED <<now, hubVars, poll, dbVars, kvBidVars, kvInvVars, cacheVars, st>>

\* update_ranking_and_get_rank: ZADD + HSET + ZREVRANK in one MULTI/EXEC
\* pipeline; then update_max_price is scheduled and the bid is answered
BidKv(r) ==
    /\ req[r].pc = "kv"
    /\ kvRanking' = Put(kvRanking, req[r].user, req[r].score)
    /\ kvDetails' = Put(kvDetails, req[r].user, req[r].price)
    /\ req' = [req EXCEPT ![r].pc = "done", ![r].result = "OK",
                          ![r].score = 0,
                          ![r].rank = get_user_rank(kvRanking', req[r].user),
                          ![r].maxPending = TRUE]
    /\ UNCHANGED <<now, hubVars, poll, dbVars, kvMaxPrice, kvInvVars, cacheVars, st>>

\* mutant: a plain SET of the submitted price
MaxPriceScript_PlainSet(cell, price) == <<price>>

\* UPDATE_MAX_PRICE_SCRIPT: SET only when the new price is above the cell
MaxPriceScript(cell, price) ==
    LET current == IF cell = <<>> THEN 0 ELSE cell[1]
    IN  IF price > current THEN <<price>> ELSE cell

\* the fire-and-forget update_max_price task runs
BidMaxPrice(r) ==
    /\ req[r].maxPending
    /\ kvMaxPrice' = MaxPriceScript(kvMaxPrice, req[r].price)
    /\ req' = [req EXCEPT ![r].maxPending = FALSE]
    /\ UNCHANGED <<now, hubVars, poll, dbVars, kvRanking, kvDetails, kvInvVars, cacheVars, st>>

\* -------------------------------------------------------- settle_campaign
\* exit records the return statement a finished call left through
IdleSt ==
    [pc |-> "idle", stock |-> 0, top_k |-> <<>>, i |-> 0, orders |-> <<>>,
     flushed |-> 0, raising |-> FALSE, ret |-> <<>>, exit |-> "none",
     dec |-> 0, inc |-> 0, seen |-> 0, rowlock |-> FALSE, pending |-> <<>>,
     released |-> <<>>]

\* mutant: a plain DECR
DecrementScript_NoCheck(cell) ==
    IF cell = <<>>
    THEN [cell |-> <<0 - 1>>, result |-> 0 - 1]
    ELSE [cell |-> <<cell[1] - 1>>, result |-> cell[1] - 1]

\* DECREMENT_STOCK_SCRIPT: DECR when the counter is >= 1, else -1
DecrementScript(cell) ==
    IF cell /= <<>> /\ cell[1] >= 1
    THEN [cell |-> <<cell[1] - 1>>, result |-> cell[1] - 1]
    ELSE [cell |-> cell, result |-> 0 - 1]

\* INCR stock:<product> (a missing key counts from 0)
IncrStock(cell) == IF cell = <<>> THEN <<1>> ELSE <<cell[1] + 1>>

\* mutant: DEL whatever the lock holds
ReleaseScript_Unconditional(cell, owner) == <<>>

\* RELEASE_LOCK_SCRIPT: DEL only when the lock holds the caller's token
ReleaseScript(cell, owner) == IF cell = <<owner>> THEN <<>> ELSE cell

\* users whose order row this session has INSERTed but not committed
FlushedUsers(p) == {st[p].orders[j].user_id : j \in 1..st[p].flushed}

\* users whose order row is added to the session and not yet INSERTed
UnflushedUsers(p) ==
    {st[p].orders[j].user_id : j \in (st[p].flushed + 1)..Len(st[p].orders)}

\* mutant: the orders table without uq_order_campaign_user
FlushConflict_NoConstraint(p) == FALSE

\* uq_order_campaign_user against committed rows: the INSERT raises
FlushConflict(p) ==
    \E o \in dbOrders : o.user_id \in UnflushedUsers(p)

\* uq_order_campaign_user against an uncommitted row of another session:
\* the INSERT waits for that transaction
FlushBlockedBy(p, q) ==
    /\ q /= p
    /\ UnflushedUsers(p) \cap FlushedUsers(q) /= {}

FlushBlocked(p) == \E q \in Procs : FlushBlockedBy(p, q)

\* position after the current winner: next winner, or the final update
NextWinner(rec) ==
    [rec EXCEPT !.i = rec.i + 1,
                !.pc = IF rec.i + 1 <= Len(rec.top_k) THEN "acquire" ELSE "finish"]

\* settlement_check_loop: get_campaigns_to_settle lists the campaign
\* (status != ended, end_time < now) and settle_campaign is called
SettlePoll(p) ==
    /\ st[p].pc = "idle"
    /\ dbCampaign /= <<>>
    /\ dbCampaign[1].status /= "ended"
    /\ dbCampaign[1].end < now
    /\ st' = [st EXCEPT ![p] = [IdleSt EXCEPT !.pc = "begin"]]
    /\ UNCHANGED <<now, hubVars, poll, dbVars, kvBidVars, kvInvVars, cacheVars, req>>

\* mutant: settle_campaign without the "already settled" early return
SettleBegin_NoEarlyReturn(p) ==
    /\ st[p].pc = "begin"
    /\ st' = [st EXCEPT ![p].pc = "topk", ![p].stock = dbProduct[1].stock]
    /\ UNCHANGED <<now, hubVars, poll, dbVars, kvBidVars, kvInvVars, cacheVars, req>>

\* settle_campaign: read the campaign; already ended -> []; else K is the
\* product's stock
SettleBegin(p) ==
    /\ st[p].pc = "begin"
    /\ st' = [st EXCEPT ![p] =
            IF dbCampaign[1].status = "ended"
            THEN [IdleSt EXCEPT !.ret = <<<<>>>>, !.exit = "already_ended"]
            ELSE [st[p] EXCEPT !.pc = "topk", !.stock = dbProduct[1].stock]]
    /\ UNCHANGED <<now, hubVars, poll, dbVars, kvBidVars, kvInvVars, cacheVars, req>>

\* top_k = get_top_k(campaign, stock)
SettleTopK(p) ==
    /\ st[p].pc = "topk"
    /\ LET top_k == get_top_k(kvRanking, kvDetails, st[p].stock)
       IN  st' = [st EXCEPT ![p] =
                NextWinner([st[p] EXCEPT !.top_k = top_k, !.i = 0])]
    /\ UNCHANGED <<now, hubVars, poll, dbVars, kvBidVars, kvInvVars, cacheVars, req>>

\* acquire_lock(product, ttl=5): SET NX EX; not acquired -> next winner
SettleAcquire(p) ==
    /\ st[p].pc = "acquire"
    /\ IF kvLock = <<>>
       THEN /\ kvLock' = <<p>>
            /\ st' = [st EXCEPT ![p].pc = "decr"]
       ELSE /\ st' = [st EXCEPT ![p] = NextWinner(st[p])]
            /\ UNCHANGED kvLock
    /\ UNCHANGED <<now, hubVars, poll, dbVars, kvBidVars, kvStock, cacheVars, req>>

\* decrement_stock; a negative result leads to increment_stock
SettleDecr(p) ==
    /\ st[p].pc = "decr"
    /\ kvStock' = DecrementScript(kvStock).cell
    /\ st' = [st EXCEPT ![p] =
            IF DecrementScript(kvStock).result < 0
            THEN [st[p] EXCEPT !.pc = "incr"]
            ELSE [st[p] EXCEPT !.pc = "selectbid", !.dec = st[p].dec + 1]]
    /\ UNCHANGED <<now, hubVars, poll, dbVars, kvBidVars, kvLock, cacheVars, req>>

\* increment_stock (after a negative decrement or a missing bid), continue
SettleIncr(p) ==
    /\ st[p].pc = "incr"
    /\ kvStock' = IncrStock(kvStock)
    /\ st' = [st EXCEPT ![p].pc = "release", ![p].inc = st[p].inc + 1]
    /\ UNCHANGED <<now, hubVars, poll, dbVars, kvBidVars, kvLock, cacheVars, req>>

\* mutant: the Order goes to whoever holds the winner's position in the
\* ranking set now
NewOrder_Current(p, ranking, bid) ==
    [order_id |-> <<p, ranking.rank>>,
     user_id |-> ZRevAt(kvRanking, ranking.rank - 1),
     final_price |-> bid.price,
     final_score |-> RoundTo(ranking.score, ScoreScale),
     final_rank |-> ranking.rank,
     status |-> "confirmed"]

\* the Order built for the current winner from the ranking entry and the bid
NewOrder(p, ranking, bid) ==
    [order_id |-> <<p, ranking.rank>>,
     user_id |-> ranking.user_id,
     final_price |-> bid.price,
     final_score |-> RoundTo(ranking.score, ScoreScale),
     final_rank |-> ranking.rank,
     status |-> "confirmed"]

\* select the winner's bid (the pending Order of the previous winner is
\* INSERTed first); no bid -> increment_stock; else add the Order
SettleSelectBid(p) ==
    /\ st[p].pc = "selectbid"
    /\ ~FlushBlocked(p) \/ FlushConflict(p)
    /\ LET ranking == st[p].top_k[st[p].i]
       IN  st' = [st EXCEPT ![p] =
                IF FlushConflict(p)
                THEN [st[p] EXCEPT !.pc = "release", !.raising = TRUE,
                                   !.orders = <<>>, !.flushed = 0]
                ELSE IF ranking.user_id \notin DOMAIN dbBids
                THEN [st[p] EXCEPT !.pc = "incr",
                                   !.flushed = Len(st[p].orders)]
                ELSE [st[p] EXCEPT !.pc = "release",
                                   !.flushed = Len(st[p].orders),
                                   !.orders = Append(st[p].orders,
                                       NewOrder(p, ranking, dbBids[ranking.user_id]))]]
    /\ UNCHANGED <<now, hubVars, poll, dbVars, kvBidVars, kvInvVars, cacheVars, req>>

\* mutant: release_lock after the try block instead of in its finally
release_in_finally_Skipped(lock, p, raising) ==
    IF raising THEN lock ELSE ReleaseScript(lock, p)

\* the finally clause runs release_lock(product, owner_id) on every way out
\* of the try block
release_in_finally(lock, p, raising) == ReleaseScript(lock, p)

\* finally: release_lock(product, owner_id); then the next winner, or the
\* exception leaves settle_campaign and the session is rolled back
SettleRelease(p) ==
    /\ st[p].pc = "release"
    /\ kvLock' = release_in_finally(kvLock, p, st[p].raising)
    /\ st' = [st EXCEPT ![p] =
            IF st[p].raising THEN [IdleSt EXCEPT !.exit = "raise"]
            ELSE NextWinner(st[p])]
    /\ UNCHANGED <<now, hubVars, poll, dbVars, kvBidVars, kvStock, cacheVars, req>>

\* update campaigns set status = 'ended' and commit: the pending Orders are
\* INSERTed; all of it becomes durable, or the unique constraint raises
SettleFinish(p) ==
    /\ st[p].pc = "finish"
    /\ ~FlushBlocked(p) \/ FlushConflict(p)
    /\ IF FlushConflict(p)
       THEN /\ st' = [st EXCEPT ![p] = [IdleSt EXCEPT !.exit = "raise"]]
            /\ UNCHANGED <<dbCampaign, dbOrders>>
       ELSE /\ dbOrders' = dbOrders \cup
                    {st[p].orders[j] : j \in 1..Len(st[p].orders)}
            /\ dbCampaign' = <<[dbCampaign[1] EXCEPT !.status = "ended"]>>
            /\ st' = [st EXCEPT ![p] = [IdleSt EXCEPT !.ret = <<st[p].orders>>,
                                                       !.exit = "commit"]]
    /\ UNCHANGED <<now, hubVars, poll, dbProduct, dbBids, kvBidVars, kvInvVars, cacheVars,
                   req>>

\* ------------------------------------------- decrement_stock_with_protection
\* A worker process p runs one call at a time, in a database session of its
\* own, with its process name as lock token.  Of a call st[p] keeps: dec and
\* inc, the decrements and increments it made on the stock counter; seen,
\* the version read under the row lock; rowlock, whether its transaction
\* holds the product's row lock; pending, its uncommitted product row; ret,
\* what it returned; exit, the statement it left through; released, what
\* release_lock answered.

\* RELEASE_LOCK_SCRIPT's reply: DEL's count, or 0
ReleaseReply(cell, owner) == IF cell = <<owner>> THEN 1 ELSE 0

\* RedisService.release_lock: the script's reply == 1
release_lock(cell, owner) ==
    [cell |-> ReleaseScript(cell, owner),
     result |-> ReleaseReply(cell, owner) = 1]

\* mutant: SET EX without NX
AcquireScript_NoNx(cell, owner) == [cell |-> <<owner>>, acquired |-> TRUE]

\* RedisService.acquire_lock: SET key owner NX EX ttl
AcquireScript(cell, owner) ==
    IF cell = <<>>
    THEN [cell |-> <<owner>>, acquired |-> TRUE]
    ELSE [cell |-> cell, acquired |-> FALSE]

\* mutant: the product row is read and written without any row lock
RowLockedByOther_NoLock(p) == FALSE

\* another transaction holds the product's row lock
RowLockedByOther(p) == \E q \in Procs : q /= p /\ st[q].rowlock

\* a caller invokes decrement_stock_with_protection(product)
InvCall(p) ==
    /\ st[p].pc = "idle"
    /\ st' = [st EXCEPT ![p] = [IdleSt EXCEPT !.pc = "l1"]]
    /\ UNCHANGED <<now, hubVars, poll, dbVars, kvBidVars, kvInvVars, cacheVars, req>>

\* Layer 1: acquire_lock(product, ttl=2); not acquired -> (False, owner_id)
InvAcquire(p) ==
    /\ st[p].pc = "l1"
    /\ kvLock' = AcquireScript(kvLock, p).cell
    /\ st' = [st EXCEPT ![p] =
            IF AcquireScript(kvLock, p).acquired
            THEN [st[p] EXCEPT !.pc = "l2"]
            ELSE [st[p] EXCEPT !.pc = "ret", !.ret = <<FALSE>>,
                               !.exit = "locked"]]
    /\ UNCHANGED <<now, hubVars, poll, dbVars, kvBidVars, kvStock, cacheVars, req>>

\* Layer 2: decrement_stock; a negative reply -> (False, owner_id)
InvDecr(p) ==
    /\ st[p].pc = "l2"
    /\ kvStock' = DecrementScript(kvStock).cell
    /\ st' = [st EXCEPT ![p] =
            IF DecrementScript(kvStock).result < 0
            THEN [st[p] EXCEPT !.pc = "ret", !.ret = <<FALSE>>,
                               !.exit = "exhausted"]
            ELSE [st[p] EXCEPT !.pc = "l3", !.dec = st[p].dec + 1]]
    /\ UNCHANGED <<now, hubVars, poll, dbVars, kvBidVars, kvLock, cacheVars, req>>

\* Layer 2 raises (connection error, timeout): the script ran or it did
\* not; "except Exception" is entered either way
InvDecrRaise(p, ran) ==
    /\ st[p].pc = "l2"
    /\ IF kvStock = <<>> THEN TRUE ELSE kvStock[1] <= MaxStock
    /\ kvStock' = IF ran THEN DecrementScript(kvStock).cell ELSE kvStock
    /\ st' = [st EXCEPT ![p] =
            [st[p] EXCEPT !.pc = "rollback", !.raising = TRUE,
                          !.dec = IF ran /\ DecrementScript(kvStock).result >= 0
                                  THEN st[p].dec + 1 ELSE st[p].dec]]
    /\ UNCHANGED <<now, hubVars, poll, dbVars, kvBidVars, kvLock, cacheVars, req>>

\* Layer 3: SELECT ... FOR UPDATE waits for the row lock, then reads the
\* committed row; no row -> ValueError; stock < 1 -> InsufficientStockError
InvSelectForUpdate(p) ==
    /\ st[p].pc = "l3"
    /\ ~RowLockedByOther(p)
    /\ st' = [st EXCEPT ![p] =
            IF dbProduct = <<>>
            THEN [st[p] EXCEPT !.pc = "rollback", !.raising = TRUE]
            ELSE IF dbProduct[1].stock < 1
            THEN [st[p] EXCEPT !.pc = "rollback", !.rowlock = TRUE,
                               !.exit = "insufficient"]
            ELSE [st[p] EXCEPT !.pc = "l4", !.rowlock = TRUE,
                               !.seen = dbProduct[1].version]]
    /\ UNCHANGED <<now, hubVars, poll, dbVars, kvBidVars, kvInvVars, cacheVars, req>>

\* mutant: the UPDATE without its version predicate
VersionCheckedUpdate_NoVersion(row, current_version) ==
    IF row.stock >= 1
    THEN <<[row EXCEPT !.stock = row.stock - 1, !.version = row.version + 1]>>
    ELSE <<>>

\* UPDATE products SET stock = stock - 1, version = version + 1 WHERE
\* version = current_version AND stock >= 1 RETURNING ...: the new row, or
\* nothing
VersionCheckedUpdate(row, current_version) ==
    IF row.version = current_version /\ row.stock >= 1
    THEN <<[row EXCEPT !.stock = row.stock - 1, !.version = row.version + 1]>>
    ELSE <<>>

\* Layer 4: the version-checked UPDATE; no row updated -> ConcurrencyError;
\* else (True, owner_id)
InvUpdate(p) ==
    /\ st[p].pc = "l4"
    /\ LET updated == VersionCheckedUpdate(dbProduct[1], st[p].seen)
       IN  st' = [st EXCEPT ![p] =
                IF updated /= <<>>
                THEN [st[p] EXCEPT !.pc = "ret", !.ret = <<TRUE>>,
                                   !.exit = "ok", !.pending = updated]
                ELSE [st[p] EXCEPT !.pc = "rollback", !.exit = "conflict"]]
    /\ UNCHANGED <<now, hubVars, poll, dbVars, kvBidVars, kvInvVars, cacheVars, req>>

\* the durable store fails under Layer 3 or Layer 4: "except Exception"
InvDbRaise(p) ==
    /\ st[p].pc \in {"l3", "l4"}
    /\ st' = [st EXCEPT ![p] = [st[p] EXCEPT !.pc = "rollback",
                                             !.raising = TRUE]]
    /\ UNCHANGED <<now, hubVars, poll, dbVars, kvBidVars, kvInvVars, cacheVars, req>>

\* either handler: increment_stock, then return (False, owner_id) or raise
InvRollback(p) ==
    /\ st[p].pc = "rollback"
    /\ kvStock' = IncrStock(kvStock)
    /\ st' = [st EXCEPT ![p] =
            [st[p] EXCEPT !.pc = "ret", !.inc = st[p].inc + 1,
                          !.ret = IF st[p].raising THEN <<>> ELSE <<FALSE>>,
                          !.exit = IF st[p].raising THEN "raise"
                                   ELSE st[p].exit]]
    /\ UNCHANGED <<now, hubVars, poll, dbVars, kvBidVars, kvLock, cacheVars, req>>

\* position of the caller once its transaction is over and it has released
AfterCall(rec) ==
    IF ~rec.rowlock /\ rec.released /= <<>>
    THEN [rec EXCEPT !.pc = "idle"] ELSE rec

\* the caller ends its transaction: commit after (True, _), else rollback;
\* the row lock goes with it
InvEndTxn(p) ==
    /\ st[p].pc = "ret"
    /\ st[p].rowlock
    /\ dbProduct' = IF st[p].ret = <<TRUE>> THEN st[p].pending ELSE dbProduct
    /\ st' = [st EXCEPT ![p] =
            AfterCall([st[p] EXCEPT !.rowlock = FALSE, !.pending = <<>>])]
    /\ UNCHANGED <<now, hubVars, poll, dbCampaign, dbBids, dbOrders, kvBidVars, kvInvVars,
                   cacheVars, req>>

\* InventoryService.release_lock(product, owner_id) by the caller
InvRelease(p) ==
    /\ st[p].pc = "ret"
    /\ st[p].released = <<>>
    /\ kvLock' = release_lock(kvLock, p).cell
    /\ st' = [st EXCEPT ![p] =
            AfterCall([st[p] EXCEPT
                          !.released = <<release_lock(kvLock, p).result>>])]
    /\ UNCHANGED <<now, hubVars, poll, dbVars, kvBidVars, kvStock, cacheVars, req>>

\* the caller dies or gives up inside or after the call: its session is
\* closed (rollback) and release_lock is never called
InvAbandon(p) ==
    /\ st[p].pc \in {"l2", "l3", "l4", "rollback", "ret"}
    /\ st' = [st EXCEPT ![p] = [IdleSt EXCEPT !.exit = "abandoned"]]
    /\ UNCHANGED <<now, hubVars, poll, dbVars, kvBidVars, kvInvVars, cacheVars, req>>

\* mutant: a lock set without EX never expires
LockExpire_NoTtl == FALSE /\ UNCHANGED vars

\* the product lock reaches its TTL
LockExpire ==
    /\ kvLock /= <<>>
    /\ kvLock' = <<>>
    /\ UNCHANGED <<now, hubVars, poll, dbVars, kvBidVars, kvStock, cacheVars, req, st>>

\* ---------------------------------------------------------- specifications
\* ------------------------------------------------------ ConnectionManager
Socks == {"w1", "w2", "w3"}
Rooms == {"c1", "c2"}
Clients == {"u1", "u2"}

NewSock == [pc |-> "new", room |-> "c1", user |-> "u1", open |-> FALSE, old |-> <<>>]

IdleCall ==
    [op |-> "none", pc |-> "idle", room |-> "c1", user |-> "u1",
     connections |-> <<>>, results |-> <<>>, disconnected_users |-> {},
     ret |-> <<>>]

\* del f[k]
Del(f, k) == [x \in DOMAIN f \ {k} |-> f[x]]

\* user_id in active_connections[campaign_id]
Registered(conns, c, u) == c \in DOMAIN conns /\ u \in DOMAIN conns[c]

\* mutant: disconnect that leaves the emptied room in place
disconnect_KeepRoom(conns, c, u) ==
    IF c \notin DOMAIN conns
    THEN conns
    ELSE Put(conns, c, Del(conns[c], u))

\* disconnect, under the lock: delete the user's entry, then the room if empty
disconnect(conns, c, u) ==
    IF c \notin DOMAIN conns
    THEN conns
    ELSE IF DOMAIN Del(conns[c], u) = {}
         THEN Del(conns, c)
         ELSE Put(conns, c, Del(conns[c], u))

\* connect, lines 47-48 and 58: make the room if absent, store the socket
register(conns, c, u, w) ==
    Put(conns, c, Put(IF c \in DOMAIN conns THEN conns[c] ELSE <<>>, u, w))

\* mutant: connect that leaves the socket it replaces open
close_old_Skip(socks, old) == socks

\* old_ws.close(); an exception of it is swallowed
close_old(socks, old) == [socks EXCEPT ![old].open = FALSE]

\* websocket_endpoint: token and campaign id are valid; connect accepts
\* the socket and waits for the lock
WsAccept(w, c, u) ==
    /\ sock[w].pc = "new"
    /\ sock' = [sock EXCEPT ![w] = [NewSock EXCEPT !.pc = "accepted", !.room = c,
                                                   !.user = u, !.open = TRUE]]
    /\ UNCHANGED <<now, poll, dbVars, kvBidVars, kvInvVars, cacheVars, req, st,
                   active_connections, hubLock, bcast>>

\* connect takes the lock; with no previous socket of the user it stores
\* the new one at once, else it awaits old_ws.close() holding the lock
ConnectEnter(w) ==
    /\ sock[w].pc = "accepted"
    /\ hubLock = <<>>
    /\ IF Registered(active_connections, sock[w].room, sock[w].user)
       THEN /\ hubLock' = <<w>>
            /\ sock' = [sock EXCEPT ![w].pc = "closing",
                            ![w].old = <<active_connections[sock[w].room][sock[w].user]>>]
            /\ UNCHANGED active_connections
       ELSE /\ active_connections' =
                    register(active_connections, sock[w].room, sock[w].user, w)
            /\ sock' = [sock EXCEPT ![w].pc = "listening"]
            /\ UNCHANGED hubLock
    /\ UNCHANGED <<now, poll, dbVars, kvBidVars, kvInvVars, cacheVars, req, st, bcast>>

\* the old socket is closed, the new one stored, the lock released
ConnectReplace(w) ==
    /\ sock[w].pc = "closing"
    /\ sock' = [close_old(sock, sock[w].old[1]) EXCEPT ![w].pc = "listening"]
    /\ active_connections' =
            register(active_connections, sock[w].room, sock[w].user, w)
    /\ hubLock' = <<>>
    /\ UNCHANGED <<now, poll, dbVars, kvBidVars, kvInvVars, cacheVars, req, st, bcast>>

\* the client goes away
ClientClose(w) ==
    /\ sock[w].open
    /\ sock' = [sock EXCEPT ![w].open = FALSE]
    /\ UNCHANGED <<now, poll, dbVars, kvBidVars, kvInvVars, cacheVars, req, st,
                   active_connections, hubLock, bcast>>

\* receive_text raises on the closed socket: the endpoint leaves its loop
WsReceiveRaise(w) ==
    /\ sock[w].pc = "listening"
    /\ ~sock[w].open
    /\ sock' = [sock EXCEPT ![w].pc = "finally"]
    /\ UNCHANGED <<now, poll, dbVars, kvBidVars, kvInvVars, cacheVars, req, st,
                   active_connections, hubLock, bcast>>

\* finally: manager.disconnect(campaign_id, user_id)
WsFinally(w) ==
    /\ sock[w].pc = "finally"
    /\ hubLock = <<>>
    /\ active_connections' = disconnect(active_connections, sock[w].room, sock[w].user)
    /\ sock' = [sock EXCEPT ![w].pc = "done"]
    /\ UNCHANGED <<now, poll, dbVars, kvBidVars, kvInvVars, cacheVars, req, st,
                   hubLock, bcast>>

\* send_to_user: not registered -> False; else the socket is looked up
SendStart(c, u) ==
    /\ bcast.op = "none"
    /\ bcast' = IF Registered(active_connections, c, u)
                THEN [IdleCall EXCEPT !.op = "send", !.pc = "sending", !.room = c,
                                      !.user = u,
                                      !.connections = Put(<<>>, u, active_connections[c][u])]
                ELSE [IdleCall EXCEPT !.op = "send", !.pc = "done", !.room = c,
                                      !.user = u, !.ret = <<FALSE>>]
    /\ UNCHANGED <<now, poll, dbVars, kvBidVars, kvInvVars, cacheVars, req, st,
                   active_connections, hubLock, sock>>

\* send_json: True on an open socket; on a closed one it raises and
\* send_to_user goes on to disconnect
SendDeliver ==
    /\ bcast.op = "send"
    /\ bcast.pc = "sending"
    /\ bcast' = IF sock[bcast.connections[bcast.user]].open
                THEN [bcast EXCEPT !.pc = "done", !.ret = <<TRUE>>]
                ELSE [bcast EXCEPT !.pc = "disconnecting"]
    /\ UNCHANGED <<now, poll, dbVars, kvBidVars, kvInvVars, cacheVars, req, st,
                   active_connections, hubLock, sock>>

\* send_to_user after a failed send: disconnect(campaign_id, user_id), False
SendDisconnect ==
    /\ bcast.op = "send"
    /\ bcast.pc = "disconnecting"
    /\ hubLock = <<>>
    /\ active_connections' = disconnect(active_connections, bcast.room, bcast.user)
    /\ bcast' = [bcast EXCEPT !.pc = "done", !.ret = <<FALSE>>]
    /\ UNCHANGED <<now, poll, dbVars, kvBidVars, kvInvVars, cacheVars, req, st,
                   hubLock, sock>>

\* broadcast_to_campaign: no room -> 0; else a copy of the room is taken
BroadcastStart(c) ==
    /\ bcast.op = "none"
    /\ bcast' = IF c \in DOMAIN active_connections /\ DOMAIN active_connections[c] /= {}
                THEN [IdleCall EXCEPT !.op = "broadcast", !.pc = "sending", !.room = c,
                                      !.connections = active_connections[c]]
                ELSE [IdleCall EXCEPT !.op = "broadcast", !.pc = "done", !.room = c,
                                      !.ret = <<0>>]
    /\ UNCHANGED <<now, poll, dbVars, kvBidVars, kvInvVars, cacheVars, req, st,
                   active_connections, hubLock, sock>>

\* send_to_one(user_id, ws), one of the gathered sends
BroadcastSendOne(u) ==
    /\ bcast.op = "broadcast"
    /\ bcast.pc = "sending"
    /\ u \in DOMAIN bcast.connections
    /\ u \notin DOMAIN bcast.results
    /\ bcast' = [bcast EXCEPT !.results = Put(bcast.results, u,
                                              sock[bcast.connections[u]].open)]
    /\ UNCHANGED <<now, poll, dbVars, kvBidVars, kvInvVars, cacheVars, req, st,
                   active_connections, hubLock, sock>>

\* mutant: a count of the sends attempted
sent_count_Attempted(results) == Cardinality(DOMAIN results)

\* sent_count: the results that are (user_id, True)
sent_count(results) == Cardinality({u \in DOMAIN results : results[u]})

\* gather has returned: the users whose send failed are collected
BroadcastCollect ==
    /\ bcast.op = "broadcast"
    /\ bcast.pc = "sending"
    /\ DOMAIN bcast.results = DOMAIN bcast.connections
    /\ bcast' = [bcast EXCEPT !.pc = "disconnecting",
                    !.disconnected_users = {u \in DOMAIN bcast.results : ~bcast.results[u]}]
    /\ UNCHANGED <<now, poll, dbVars, kvBidVars, kvInvVars, cacheVars, req, st,
                   active_connections, hubLock, sock>>

\* for user_id in disconnected_users: disconnect(campaign_id, user_id)
BroadcastDisconnect(u) ==
    /\ bcast.op = "broadcast"
    /\ bcast.pc = "disconnecting"
    /\ u \in bcast.disconnected_users
    /\ hubLock = <<>>
    /\ active_connections' = disconnect(active_connections, bcast.room, u)
    /\ bcast' = [bcast EXCEPT !.disconnected_users = bcast.disconnected_users \ {u}]
    /\ UNCHANGED <<now, poll, dbVars, kvBidVars, kvInvVars, cacheVars, req, st,
                   hubLock, sock>>

\* return sent_count
BroadcastReturn ==
    /\ bcast.op = "broadcast"
    /\ bcast.pc = "disconnecting"
    /\ bcast.disconnected_users = {}
    /\ bcast' = [bcast EXCEPT !.pc = "done", !.ret = <<sent_count(bcast.results)>>]
    /\ UNCHANGED <<now, poll, dbVars, kvBidVars, kvInvVars, cacheVars, req, st,
                   active_connections, hubLock, sock>>

\* the caller has the result of its send_to_user or broadcast_to_campaign
CallDone ==
    /\ bcast.pc = "done"
    /\ bcast' = IdleCall
    /\ UNCHANGED <<now, poll, dbVars, kvBidVars, kvInvVars, cacheVars, req, st,
                   active_connections, hubLock, sock>>

\* ------------------------------------------------- settlement_check_loop
\* One pass of the loop: a session from get_db, the list of due campaigns,
\* then settle_campaign on each of them in turn with that one session.
\* The campaigns of this part have no bid, so settle_campaign is the
\* statements of lines 56-80 (two SELECTs), get_top_k (an empty list),
\* the UPDATE of the status and the commit.
\* errors counts the "Error settling campaign" lines the pass has logged
IdlePoll == [pc |-> "sleep", due |-> <<>>, session |-> "ok", errors |-> 0]

\* get_campaigns_to_settle: status != "ended" and end_time < now
campaigns_to_settle ==
    SelectSeq([c \in 1..Len(dbCampaign) |-> c],
              LAMBDA c : dbCampaign[c].status /= "ended" /\ dbCampaign[c].end < now)

\* the loop wakes up, opens a session and lists the due campaigns
PollBegin(p) ==
    /\ poll[p].pc = "sleep"
    /\ poll' = [poll EXCEPT ![p] = [pc |-> "pass", due |-> campaigns_to_settle,
                                     session |-> "ok", errors |-> 0]]
    /\ UNCHANGED <<now, hubVars, dbVars, kvBidVars, kvInvVars, cacheVars, req, st>>

\* settle_campaign to its commit: [] when already ended, else status ended
campaign_settled(c) ==
    IF dbCampaign[c].status = "ended"
    THEN dbCampaign
    ELSE [dbCampaign EXCEPT ![c].status = "ended"]

\* settle_campaign(campaign) returns; the loop moves to the next campaign
PollSettle(p) ==
    /\ poll[p].pc = "pass"
    /\ poll[p].due /= <<>>
    /\ poll[p].session = "ok"
    /\ kvRanking = <<>>
    /\ dbCampaign' = campaign_settled(Head(poll[p].due))
    /\ poll' = [poll EXCEPT ![p].due = Tail(poll[p].due)]
    /\ UNCHANGED <<now, hubVars, dbProduct, dbBids, dbOrders, kvBidVars, kvInvVars,
                   cacheVars, req, st>>

\* settle_campaign(campaign) raises and the loop catches it (main.py
\* 108-111, no rollback): kind "db" is an error of a statement of the
\* session, which leaves the session's transaction failed; kind "kv" is
\* an error of get_top_k, which leaves the session as it was
PollSettleRaise(p, kind) ==
    /\ poll[p].pc = "pass"
    /\ poll[p].due /= <<>>
    /\ poll[p].session = "ok"
    /\ poll' = [poll EXCEPT ![p].due = Tail(poll[p].due),
                            ![p].session = IF kind = "db" THEN "failed" ELSE "ok",
                            ![p].errors = poll[p].errors + 1]
    /\ UNCHANGED <<now, hubVars, dbVars, kvBidVars, kvInvVars, cacheVars, req, st>>

\* settle_campaign(campaign) on a session whose transaction has failed:
\* its first SELECT raises, the loop catches it and moves on
PollSettleOnFailed(p) ==
    /\ poll[p].pc = "pass"
    /\ poll[p].due /= <<>>
    /\ poll[p].session = "failed"
    /\ poll' = [poll EXCEPT ![p].due = Tail(poll[p].due),
                            ![p].errors = poll[p].errors + 1]
    /\ UNCHANGED <<now, hubVars, dbVars, kvBidVars, kvInvVars, cacheVars, req, st>>

\* the pass is over: get_db closes the session, the loop sleeps 10 s
PollEnd(p) ==
    /\ poll[p].pc = "pass"
    /\ poll[p].due = <<>>
    /\ poll' = [poll EXCEPT ![p] = IdlePoll]
    /\ UNCHANGED <<now, hubVars, dbVars, kvBidVars, kvInvVars, cacheVars, req, st>>

Init ==
    /\ now = 0
    /\ dbProduct = <<>>
    /\ dbCampaign = <<>>
    /\ dbBids = <<>>
    /\ dbOrders = {}
    /\ kvRanking = <<>>
    /\ kvDetails = <<>>
    /\ kvStock = <<>>
    /\ kvLock = <<>>
    /\ kvCampaign = <<>>
    /\ kvCampaignTtl = FALSE
    /\ kvMaxPrice = <<>>
    /\ localCache = <<>>
    /\ req = [r \in Reqs |-> IdleReq]
    /\ st = [p \in Procs |-> IdleSt]
    /\ active_connections = <<>>
    /\ hubLock = <<>>
    /\ sock = [w \in Socks |-> NewSock]
    /\ bcast = IdleCall
    /\ poll = [p \in Procs |-> IdlePoll]

Admin(Stocks, MinPrices, Starts, Ends, Offsets, Alphas, Betas, Gammas) ==
    \/ \E k \in Stocks, m \in MinPrices : CreateProduct(k, m)
    \/ \E s \in Starts, e \in Ends, off \in Offsets,
          a \in Alphas, b \in Betas, g \in Gammas :
              CreateCampaign(s, e, off, a, b, g)

Cache ==
    \/ Prewarm
    \/ KvCampaignExpire
    \/ LocalExpire

\* Arrivals: the <<request, user, price>> triples that may be submitted
Bidding(Arrivals) ==
    LET RS == {a[1] : a \in Arrivals}
    IN  \/ \E a \in Arrivals : BidStart(a[1], a[2], a[3])
        \/ \E r \in RS : BidTier2(r)
        \/ \E r \in RS : BidTier3(r)
        \/ \E r \in RS : BidParams(r)
        \/ \E r \in RS : BidUpsert(r)
        \/ \E r \in RS : BidCommit(r)
        \/ \E r \in RS : BidKv(r)

\* the durable store fails under a submission
BidFaults ==
    \/ \E r \in Reqs : BidUpsertFail(r)
    \/ \E r \in Reqs : BidCommitFail(r)

\* the event loop runs a scheduled update_max_price task
MaxPriceTasks == \E r \in Reqs : BidMaxPrice(r)

Settling(PS) ==
    \/ \E p \in PS : SettlePoll(p)
    \/ \E p \in PS : SettleBegin(p)
    \/ \E p \in PS : SettleTopK(p)
    \/ \E p \in PS : SettleAcquire(p)
    \/ \E p \in PS : SettleDecr(p)
    \/ \E p \in PS : SettleIncr(p)
    \/ \E p \in PS : SettleSelectBid(p)
    \/ \E p \in PS : SettleRelease(p)
    \/ \E p \in PS : SettleFinish(p)

Inventory(PS) ==
    \/ \E p \in PS : InvCall(p)
    \/ \E p \in PS : InvAcquire(p)
    \/ \E p \in PS : InvDecr(p)
    \/ \E p \in PS : InvSelectForUpdate(p)
    \/ \E p \in PS : InvUpdate(p)
    \/ \E p \in PS : InvRollback(p)
    \/ \E p \in PS : InvEndTxn(p)
    \/ \E p \in PS : InvRelease(p)

\* Redis or the durable store fails under a call
InvFaults ==
    \/ \E p \in Procs, ran \in BOOLEAN : InvDecrRaise(p, ran)
    \/ \E p \in Procs : InvDbRaise(p)

\* campaign used where the numbers do not matter: window [0, 1), all
\* coefficients 1.0, minimum price 1.000
PlainAdmin ==
    Admin(0..MaxStock, {1000}, {0}, {1}, {0}, {100000}, {100000}, {100000})

\* one poller process settling, two bidders
Next ==
    \/ PlainAdmin
    \/ Tick
    \/ Bidding({<<"r1", "u1", 1000>>, <<"r2", "u2", 1000>>, <<"r2", "u2", 2000>>})
    \/ MaxPriceTasks
    \/ Settling({"p1"})
    \/ LockExpire

Spec == Init /\ [][Next]_vars

\* the poller running in two processes; the update_max_price tasks write
\* only the max-price cell, which settlement never reads, and stay scheduled
RaceNext ==
    \/ PlainAdmin
    \/ Tick
    \/ Bidding({<<"r1", "u1", 1000>>, <<"r2", "u2", 1000>>})
    \/ Settling(Procs)
    \/ LockExpire

RaceSpec == Init /\ [][RaceNext]_vars

\* bidding only: u1 bids three times at once, or twice next to u2 or u3;
\* 1.004 has more decimals than the price column keeps
BidNext ==
    \/ PlainAdmin
    \/ Tick
    \/ Bidding({<<"r1", "u1", 1004>>, <<"r2", "u1", 2000>>,
                <<"r3", "u1", 1500>>, <<"r3", "u2", 1004>>,
                <<"r3", "u3", 1000>>})
    \/ MaxPriceTasks

BidSpec == Init /\ [][BidNext]_vars

\* bidding with a durable store that may fail: u1 bids twice, u2 once
FaultNext ==
    \/ PlainAdmin
    \/ Tick
    \/ Bidding({<<"r1", "u1", 1000>>, <<"r2", "u1", 2000>>,
                <<"r3", "u2", 1000>>})
    \/ MaxPriceTasks
    \/ BidFaults

FaultSpec == Init /\ [][FaultNext]_vars

\* the three cache tiers: window [1, 2), instants submitted with or without
\* a UTC offset, alpha 1.0 or 1.00005, minimum price 1.000 or 1.004; u1
\* bids the minimum or half of it
CacheNext ==
    \/ Admin({1}, {1000, 1004}, {1}, {2}, {0, 1}, {100000, 100005},
             {100000}, {100000})
    \/ Tick
    \/ Cache
    \/ Bidding({<<"r1", "u1", 1000>>, <<"r1", "u1", 500>>,
                <<"r2", "u2", 2000>>})
    \/ MaxPriceTasks

CacheSpec == Init /\ [][CacheNext]_vars

\* the inventory primitive called from two processes, with a lock that may
\* expire under its holder and stores that may fail
InvNext ==
    \/ PlainAdmin
    \/ Inventory(Procs)
    \/ InvFaults
    \/ LockExpire

InvSpec == Init /\ [][InvNext]_vars

\* scoring over a campaign that runs for more than a day: bids at 0 ms,
\* 1 ms, 100000000 ms and 100000001 ms after the start; u1 bids 1.000 or
\* 1.010, u2 (same weight) and u3 (twice the weight) bid 1.000; all
\* coefficients 1.0.  On inputs that differ in one argument the order of
\* two scores at the 1/1000000 resolution is their order in float64.
ScoreNext ==
    \/ Admin({1}, {1000}, {0}, {100000005}, {0}, {100000}, {100000}, {100000})
    \/ \E t \in {1, 100000000, 100000001} : Elapse(t)
    \/ Bidding({<<"r1", "u1", 1000>>, <<"r2", "u1", 1010>>,
                <<"r2", "u2", 1000>>, <<"r3", "u3", 1000>>})

ScoreSpec == Init /\ [][ScoreNext]_vars

\* callers that may fail, die or walk away holding the lock; Redis deletes
\* a key set with EX once its TTL is over, whatever the callers do
LockNext ==
    \/ PlainAdmin
    \/ Inventory(Procs)
    \/ InvFaults
    \/ \E p \in Procs : InvAbandon(p)
    \/ LockExpire

LockSpec == Init /\ [][LockNext]_vars /\ WF_vars(LockExpire)

\* no submission is between its first step and its background commit
BiddingQuiet ==
    \A r \in Reqs : req[r].pc \in {"idle", "done"} /\ ~req[r].commitPending

\* one uncontended settlement: three bidders with different prices, and the
\* poller runs only while no submission is in flight (and the reverse)
QuietNext ==
    \/ PlainAdmin
    \/ Tick
    \/ /\ st["p1"].pc = "idle"
       /\ Bidding({<<"r1", "u1", 1000>>, <<"r2", "u2", 2000>>,
                   <<"r3", "u3", 1500>>})
    \/ MaxPriceTasks
    \/ BiddingQuiet /\ Settling({"p1"})
    \/ LockExpire

QuietSpec == Init /\ [][QuietNext]_vars

\* the connection hub alone: endpoints of the sockets, one send_to_user or
\* broadcast_to_campaign at a time
HubNext ==
    \/ \E w \in Socks, c \in Rooms, u \in Clients : WsAccept(w, c, u)
    \/ \E w \in Socks : ConnectEnter(w)
    \/ \E w \in Socks : ConnectReplace(w)
    \/ \E w \in Socks : ClientClose(w)
    \/ \E w \in Socks : WsReceiveRaise(w)
    \/ \E w \in Socks : WsFinally(w)
    \/ \E c \in Rooms, u \in Clients : SendStart(c, u)
    \/ SendDeliver
    \/ SendDisconnect
    \/ \E c \in Rooms : BroadcastStart(c)
    \/ \E u \in Clients : BroadcastSendOne(u)
    \/ BroadcastCollect
    \/ \E u \in Clients : BroadcastDisconnect(u)
    \/ BroadcastReturn
    \/ CallDone

HubSpec == Init /\ [][HubNext]_vars

\* two campaigns of one product, without bids, about to end
PollInit ==
    /\ now = 0
    /\ dbProduct = <<[stock |-> 1, min_price |-> 1000, version |-> 0]>>
    /\ \E e1 \in 1..(MaxTime - 1), e2 \in 1..(MaxTime - 1) :
          dbCampaign = <<[start |-> 0, end |-> e1, alpha |-> 100000, beta |-> 100000,
                          gamma |-> 100000, quota |-> 1, status |-> "pending"],
                         [start |-> 0, end |-> e2, alpha |-> 100000, beta |-> 100000,
                          gamma |-> 100000, quota |-> 1, status |-> "pending"]>>
    /\ dbBids = <<>>
    /\ dbOrders = {}
    /\ kvRanking = <<>>
    /\ kvDetails = <<>>
    /\ kvStock = <<1>>
    /\ kvLock = <<>>
    /\ kvCampaign = <<>>
    /\ kvCampaignTtl = FALSE
    /\ kvMaxPrice = <<>>
    /\ localCache = <<>>
    /\ req = [r \in Reqs |-> IdleReq]
    /\ st = [p \in Procs |-> IdleSt]
    /\ active_connections = <<>>
    /\ hubLock = <<>>
    /\ sock = [w \in Socks |-> NewSock]
    /\ bcast = IdleCall
    /\ poll = [p \in Procs |-> IdlePoll]

\* the pollers of two processes; a call of settle_campaign may raise
PollNext ==
    \/ Tick
    \/ \E p \in Procs : PollBegin(p)
    \/ \E p \in Procs : PollSettle(p)
    \/ \E p \in Procs, kind \in {"db", "kv"} : PollSettleRaise(p, kind)
    \/ \E p \in Procs : PollSettleOnFailed(p)
    \/ \E p \in Procs : PollEnd(p)

\* the loop of a process keeps running (it sleeps 10 s between passes), and
\* a call that can succeed again and again is not made to raise for ever
PollSpec ==
    /\ PollInit
    /\ [][PollNext]_vars
    /\ \A p \in Procs :
          /\ WF_vars(PollBegin(p))
          /\ WF_vars(PollEnd(p))
          /\ WF_vars(PollSettleOnFailed(p))
          /\ SF_vars(PollSettle(p))

\* ------------------------------------------------------------------ claims
Quota == dbCampaign[1].quota

\* C1: after a settlement the number of orders of the campaign is at most
\* its quota K and at most the number of distinct bidders in the ranking set
C1_NoOverselling ==
    dbCampaign /= <<>> =>
        /\ Cardinality(dbOrders) <= Quota
        /\ Cardinality(dbOrders) <= Cardinality(DOMAIN kvRanking)

\* C2: whatever the interleaving of concurrent settlements of the campaign,
\* the orders committed for it never exceed K
C2_ConcurrentNoOverselling ==
    \A n \in 0..MaxStock :
        (dbCampaign /= <<>> /\ Quota = n) => Cardinality(dbOrders) <= n

C5_OneOrderPerUser ==
    \A o1, o2 \in dbOrders : o1.user_id = o2.user_id => o1.order_id = o2.order_id

\* a settlement holds a pending order for a user who already has a committed
\* order from another settlement
C5_Witness ==
    \E p \in Procs : \E o \in dbOrders : o.user_id \in UnflushedUsers(p)

\* requests of user u whose upsert has executed / has been committed
Upserted(u) ==
    {r \in Reqs : req[r].user = u /\ (req[r].pc = "kv" \/ req[r].result = "OK")}

Committed(u) == {r \in Upserted(u) : ~req[r].commitPending}

Accepted(u) == {r \in Reqs : req[r].user = u /\ req[r].result = "OK"}

C6_RankScoreDuality ==
    /\ \A a, b \in DOMAIN kvRanking :
           kvRanking[a] > kvRanking[b]
               => get_user_rank(kvRanking, a) < get_user_rank(kvRanking, b)
    /\ \A k \in 1..Cardinality(Users) :
           LET top == get_top_k(kvRanking, kvDetails, k)
           IN  \A i \in 1..Len(top) :
                   /\ top[i].rank = i
                   /\ top[i].score = kvRanking[top[i].user_id]
                   /\ get_user_rank(kvRanking, top[i].user_id) = i
                   /\ i < Len(top) => top[i].score >= top[i + 1].score

\* two users ranked with different scores
C6_Witness ==
    \E a, b \in DOMAIN kvRanking :
        /\ kvRanking[a] > kvRanking[b]
        /\ \E r \in Reqs : req[r].result = "OK" /\ req[r].user = b /\ req[r].rank = 2

AcceptedPrices == {req[r].price : r \in {q \in Reqs : req[q].result = "OK"}}

MaxPriceCell == IF kvMaxPrice = <<>> THEN 0 ELSE kvMaxPrice[1]

\* C7: the max-price cell never decreases, it is written only with a price
\* above its value, and once every update_max_price task has run it holds
\* the highest accepted price
C7_MaxPriceMonotone ==
    [][/\ MaxPriceCell' >= MaxPriceCell
       /\ kvMaxPrice' /= kvMaxPrice =>
              \E r \in Reqs : /\ req[r].maxPending
                              /\ req[r].price > MaxPriceCell
                              /\ kvMaxPrice' = <<req[r].price>>
       /\ (AcceptedPrices' /= {} /\ \A r \in Reqs : ~req'[r].maxPending)
              => \A x \in AcceptedPrices' : MaxPriceCell' >= x
       /\ (AcceptedPrices' /= {} /\ \A r \in Reqs : ~req'[r].maxPending)
              => MaxPriceCell' \in AcceptedPrices']_vars

\* a lower accepted price whose update has run while the cell holds a
\* higher accepted price
C7_Witness ==
    /\ \A r \in Reqs : ~req[r].maxPending
    /\ \E r, q \in Reqs :
           /\ req[r].result = "OK"
           /\ req[q].result = "OK"
           /\ req[r].price < req[q].price
           /\ kvMaxPrice = <<req[q].price>>

\* the score the formula gives for a stored row's own price and
\* time_elapsed_ms, the campaign's coefficients and the bidder's weight
RowScore(u) ==
    calculate_score(dbBids[u].price, dbBids[u].time_elapsed_ms, Weight(u),
                    dbCampaign[1].alpha, dbCampaign[1].beta, dbCampaign[1].gamma)

\* C9: every stored bid row's score is within 1e-6 (relative) of
\* alpha*price + beta/(time_elapsed_ms + 1) + gamma*weight computed from the
\* row's price and time_elapsed_ms
C9_ScoreConsistency ==
    \A u \in DOMAIN dbBids :
        Abs(dbBids[u].score - RowScore(u)) <= RowScore(u) \div 1000000

\* C8: the view a lookup returns in the active window, whichever tier
\* served it, carries the alpha, beta, gamma, K and min_price that the
\* campaign row and its product hold
C8_CacheCoherence ==
    \A r \in Reqs :
        req[r].view /= <<>> =>
            /\ req[r].view[1].alpha = DurableView.alpha
            /\ req[r].view[1].beta = DurableView.beta
            /\ req[r].view[1].gamma = DurableView.gamma
            /\ req[r].view[1].stock = DurableView.stock
            /\ req[r].view[1].min_price = DurableView.min_price

\* the campaign window as the campaign row holds it
RowWindow ==
    IF dbCampaign = <<>> THEN "CAMPAIGN_NOT_FOUND"
    ELSE IF now < dbCampaign[1].start THEN "CAMPAIGN_NOT_STARTED"
    ELSE IF now >= dbCampaign[1].end THEN "CAMPAIGN_ENDED"
    ELSE "none"

\* C10: whichever tier answers the lookup, the request ends with
\* CAMPAIGN_NOT_FOUND when there is no campaign row, CAMPAIGN_NOT_STARTED
\* when now < start, CAMPAIGN_ENDED when now >= end, and goes on to the bid
\* only when start <= now < end
C10_WindowValidation ==
    [][\A r \in Reqs :
          (req[r].pc \in {"idle", "tier2", "tier3"}
              /\ req'[r].pc \in {"params", "done"})
          => /\ req'[r].result = RowWindow
             /\ req'[r].pc = "params" <=> RowWindow = "none"]_vars

\* lookups were refused before the start and after the end and one was let
\* through in between, with a campaign hash whose instants carry an offset
C10_Witness ==
    /\ kvCampaign /= <<>>
    /\ kvCampaign[1].start_time.off /= 0
    /\ \E r, q \in Reqs :
           /\ req[r].result \in {"CAMPAIGN_NOT_STARTED", "CAMPAIGN_ENDED"}
           /\ req[q].result = "OK"

Rejections ==
    {"PRICE_TOO_LOW", "CAMPAIGN_NOT_STARTED", "CAMPAIGN_ENDED",
     "CAMPAIGN_NOT_FOUND"}

\* C11: no step of a submission that is rejected (or has not got past its
\* checks) touches the ranking set, the detail hashes, the max-price cell or
\* the bids table, and a rejected submission leaves no write scheduled
C11_RejectionChangesNothing ==
    [][\A r \in Reqs :
          (req'[r] /= req[r]
              /\ (req'[r].result \in Rejections
                      \/ req'[r].pc \in {"tier2", "tier3", "params"}))
          => /\ kvRanking' = kvRanking
             /\ kvDetails' = kvDetails
             /\ kvMaxPrice' = kvMaxPrice
             /\ dbBids' = dbBids
             /\ ~req'[r].commitPending
             /\ ~req'[r].maxPending]_vars

\* a bid below the minimum price was rejected next to an accepted bid
C11_Witness ==
    /\ \E r \in Reqs : req[r].result = "PRICE_TOO_LOW"
    /\ \E r \in Reqs : req[r].result = "OK"
    /\ Cardinality(DOMAIN kvRanking) = 1

DistinctScores ==
    \A a, b \in DOMAIN kvRanking : a /= b => kvRanking[a] /= kvRanking[b]

\* C12: with more bidders than the quota K and pairwise distinct scores, one
\* uncontended settlement leaves exactly K confirmed orders, ranked 1..K, for
\* the K highest scorers, none for a bidder ranked below K, and the
\* product's stock (the row and the counter) at 0
C12_TopKSettlement ==
    (/\ dbCampaign /= <<>>
     /\ st["p1"].exit = "commit"
     /\ Cardinality(DOMAIN kvRanking) > Quota
     /\ DistinctScores)
    => /\ Cardinality(dbOrders) = Quota
       /\ \A o \in dbOrders :
              /\ o.status = "confirmed"
              /\ o.final_rank \in 1..Quota
              /\ o.final_rank = get_user_rank(kvRanking, o.user_id)
       /\ \A k \in 1..Quota : \E o \in dbOrders : o.final_rank = k
       /\ \A u \in DOMAIN kvRanking :
              get_user_rank(kvRanking, u) > Quota
                  => ~\E o \in dbOrders : o.user_id = u
       /\ dbProduct[1].stock = 0
       /\ kvStock = <<0>>

\* members of the ranking set with a score above / not below that of u
Above(zset, u) == {v \in DOMAIN zset : zset[v] > zset[u]}

NotBelow(zset, u) == {v \in DOMAIN zset : zset[v] >= zset[u]}

\* C13: the rank a submission returns is the caller's 1-based descending
\* position in the ranking set as it is right after the caller's own write:
\* the set holds the score of this call and the rank counts the members
\* above it
C13_ReadYourWritesRank ==
    [][\A r \in Reqs :
          (req[r].pc = "kv" /\ req'[r].pc = "done")
          => /\ req[r].user \in DOMAIN kvRanking'
             /\ kvRanking'[req[r].user] = req[r].score
             /\ req'[r].rank > Cardinality(Above(kvRanking', req[r].user))
             /\ req'[r].rank <= Cardinality(NotBelow(kvRanking', req[r].user))]_vars

\* two users were each told rank 1: the second overtook the first
C13_Witness ==
    \E r, q \in Reqs :
        /\ req[r].user /= req[q].user
        /\ req[r].result = "OK" /\ req[r].rank = 1
        /\ req[q].result = "OK" /\ req[q].rank = 1

\* C14: an accepted submission carries a rank of at least 1
C14_RankAtLeastOne ==
    \A r \in Reqs : req[r].result = "OK" => req[r].rank >= 1

\* every submission was accepted, one of them behind another user
C14_Witness ==
    /\ \A r \in Reqs : req[r].result = "OK"
    /\ \E r \in Reqs : req[r].rank = 2

\* C15: every member of the ranking set has a committed row in the bids
\* table
C15_DurableGroundTruth ==
    \A u \in DOMAIN kvRanking : u \in DOMAIN dbBids

\* C16: the ranking set and the detail hashes are written only by a
\* submission whose upsert has returned its row, and a submission whose
\* upsert failed writes neither
C16_KvAfterDurable ==
    [][/\ (kvRanking' /= kvRanking \/ kvDetails' /= kvDetails)
           => \E r \in Reqs :
                  /\ req[r].pc = "kv"
                  /\ req'[r].result = "OK"
                  /\ kvRanking' = Put(kvRanking, req[r].user, req[r].score)
                  /\ kvDetails' = Put(kvDetails, req[r].user, req[r].price)
       /\ \A r \in Reqs :
              (req'[r].pc = "kv" /\ req[r].pc /= "kv")
              => /\ req[r].pc = "upsert"
                 /\ req'[r].row /= <<>>
                 /\ req'[r].row[1].price = RoundTo(req[r].price, PriceScale)
                 /\ req'[r].commitPending
       /\ \A r \in Reqs :
              (req'[r].result = "DB_ERROR" /\ req[r].result /= "DB_ERROR")
              => /\ req'[r].pc = "done"
                 /\ kvRanking' = kvRanking
                 /\ kvDetails' = kvDetails]_vars

\* one submission's upsert failed and its user is absent from the ranking
\* set, while another user's submission went through
C16_Witness ==
    \E r, q \in Reqs :
        /\ req[r].result = "DB_ERROR"
        /\ req[r].user \notin DOMAIN kvRanking
        /\ req[q].result = "OK"
        /\ req[q].user \in DOMAIN kvRanking

\* C17: settle_campaign considers min(quota, number of bidders) entries of
\* the ranking set: the list it reads has that many entries, whatever the
\* product's stock is at that time
C17_QuotaSelectsWinners ==
    [][\A p \in Procs :
          (st[p].pc = "topk" /\ st'[p].pc /= "topk")
          => Len(st'[p].top_k) =
                 (IF Quota <= Cardinality(DOMAIN kvRanking)
                  THEN Quota ELSE Cardinality(DOMAIN kvRanking))]_vars

\* C18: after a committed settlement the product's durable stock is the
\* quota less the number of orders created, and the stock counter has gone
\* down by the same number
C18_StockConservation ==
    (dbCampaign /= <<>> /\ st["p1"].exit = "commit")
    => /\ dbProduct[1].stock = Quota - Cardinality(dbOrders)
       /\ kvStock = <<Quota - Cardinality(dbOrders)>>

\* the users of the list a settlement call read from the ranking set
SnapshotUsers(p) == {st[p].top_k[j].user_id : j \in 1..Len(st[p].top_k)}

\* the step of p is the commit of settle_campaign
Commits(p) == st[p].pc = "finish" /\ st'[p].exit = "commit"

\* C19: every entry of the list settle_campaign reads carries the 1-based
\* rank and the score its user has in the ranking set at that moment, and
\* every order committed has the final_rank and the final_score of its
\* user's entry of that list, with final_rank in 1..K
C19_FinalRankAndScore ==
    [][\A p \in Procs :
          /\ (st[p].pc = "topk" /\ st'[p].pc /= "topk")
             => \A j \in 1..Len(st'[p].top_k) :
                    LET e == st'[p].top_k[j]
                    IN  /\ e.rank = get_user_rank(kvRanking, e.user_id)
                        /\ e.score = kvRanking[e.user_id]
          /\ Commits(p)
             => \A o \in dbOrders' \ dbOrders :
                    /\ o.final_rank \in 1..Quota
                    /\ \E j \in 1..Len(st[p].top_k) :
                           /\ st[p].top_k[j].user_id = o.user_id
                           /\ st[p].top_k[j].rank = o.final_rank
                           /\ st[p].top_k[j].score = o.final_score]_vars

\* C20: a settlement call reads the ranking set once, and every order it
\* adds or commits is for a user of the list it read; a skipped winner's
\* slot goes to nobody else, and a member that joined the ranking set after
\* the read gets no order from that call
C20_AwardsWithinSnapshot ==
    [][\A p \in Procs :
          /\ st'[p].top_k /= st[p].top_k
             => st[p].pc = "topk" \/ st'[p].pc = "idle"
          /\ \A j \in 1..Len(st'[p].orders) :
                 /\ st'[p].pc /= "idle"
                 /\ st'[p].orders[j].user_id \in
                        {st'[p].top_k[i].user_id : i \in 1..Len(st'[p].top_k)}
          /\ Commits(p)
             => /\ \A o \in dbOrders' \ dbOrders : o.user_id \in SnapshotUsers(p)
                /\ Cardinality(dbOrders' \ dbOrders) <= Len(st[p].top_k)]_vars

\* a call about to commit an order while a member that joined the ranking
\* set after its read, and would have fitted in the quota, is left without
C20_Witness ==
    \E p \in Procs :
        /\ st[p].pc = "finish"
        /\ st[p].orders /= <<>>
        /\ Len(st[p].top_k) < Quota
        /\ \E u \in DOMAIN kvRanking :
               /\ u \notin SnapshotUsers(p)
               /\ u \in DOMAIN dbBids

C22_TopKLength ==
    \A k \in 0..(Cardinality(Users) + 1) :
        LET top == get_top_k(kvRanking, kvDetails, k)
            n == Cardinality(DOMAIN kvRanking)
        IN  /\ Len(top) = (IF k <= n THEN k ELSE n)
            /\ \A i \in 1..Len(top) : top[i].rank = i
            /\ \A i, j \in 1..Len(top) :
                   i /= j => top[i].user_id /= top[j].user_id

\* the step is the release_lock call of p
Releases(p) ==
    st[p].pc = "ret" /\ st[p].released = <<>> /\ st'[p].released /= <<>>

\* C23: release_lock(product, t) answers true and deletes the lock exactly
\* when the lock holds t; otherwise (another token, expired, re-acquired by
\* someone else) it answers false and the lock stays as it is; and no step
\* of a caller takes the lock away from another token
C23_OnlyHolderReleases ==
    [][/\ \A p \in Procs :
              Releases(p)
              => /\ st'[p].released = <<TRUE>> <=> kvLock = <<p>>
                 /\ kvLock = <<p>> => kvLock' = <<>>
                 /\ kvLock /= <<p>> => kvLock' = kvLock
       /\ \A q \in Procs :
              (kvLock = <<q>> /\ kvLock' /= kvLock /\ st' /= st)
              => Releases(q) /\ kvLock' = <<>>]_vars

\* p's call took the lock and decremented, the lock expired and q took it:
\* p's release_lock found q's token and answered false
C23_Witness ==
    \E p, q \in Procs :
        /\ p /= q
        /\ st[p].exit = "ok"
        /\ st[p].released = <<FALSE>>
        /\ kvLock = <<q>>

\* the step is the acquire_lock call of p
Acquires(p) == st[p].pc = "l1" /\ st'[p].pc /= "l1"

\* C24: acquire_lock succeeds exactly when the product has no unexpired
\* lock and then the lock holds the caller's token; while a token is in
\* the lock no other caller takes it; and a call whose acquire failed
\* returns failure having changed neither the stock counter nor the
\* product row
C24_LockMutualExclusion ==
    [][/\ \A p \in Procs :
              Acquires(p)
              => /\ st'[p].pc = "l2" <=> kvLock = <<>>
                 /\ st'[p].pc = "l2" => kvLock' = <<p>>
                 /\ st'[p].pc /= "l2"
                    => /\ kvLock' = kvLock
                       /\ st'[p].pc = "ret" /\ st'[p].ret = <<FALSE>>
       /\ \A q \in Procs : kvLock = <<q>> => kvLock' \in {<<q>>, <<>>}
       /\ \A p \in Procs :
              (st'[p].exit = "locked" /\ st'[p] /= st[p])
              => /\ kvStock' = kvStock /\ dbProduct' = dbProduct
                 /\ st'[p].dec = 0 /\ st'[p].inc = 0
                 /\ ~st'[p].rowlock /\ st'[p].pending = <<>>]_vars

\* p was refused the lock while q, holding it, is inside its call
C24_Witness ==
    \E p, q \in Procs :
        /\ st[p].exit = "locked" /\ st[p].ret = <<FALSE>>
        /\ kvLock = <<q>>
        /\ st[q].pc \in {"l2", "l3", "l4"}

\* C25: the stock counter is never negative; a decrement_stock that goes
\* on found the counter >= 1 and took exactly 1 from it, and one that
\* reports exhaustion found it 0 or missing and left it as it was, however
\* the calls of the processes interleave
C25_CounterNeverNegative ==
    [][/\ kvStock' /= <<>> => kvStock'[1] >= 0
       /\ \A p \in Procs :
              /\ (st[p].pc = "l2" /\ st'[p].pc = "l3")
                 => /\ kvStock /= <<>> /\ kvStock[1] >= 1
                    /\ kvStock' = <<kvStock[1] - 1>>
              /\ (st[p].pc = "l2" /\ st'[p].exit = "exhausted")
                 => /\ kvStock \in {<<>>, <<0>>}
                    /\ kvStock' = kvStock]_vars

\* two calls in flight together, one took the last unit and the other
\* found the counter at 0
C25_Witness ==
    \E p, q \in Procs :
        /\ p /= q
        /\ st[p].exit = "exhausted" /\ st[p].pc = "ret"
        /\ st[q].pc \in {"l3", "l4"} /\ st[q].dec = 1
        /\ kvStock = <<0>>

\* the submission has computed its score and not yet stored it
Scored(r) == req[r].pc = "upsert"

\* beta / (T + 1) as it enters the score of a submission, in 1/1000000
TimeTerm(r) ==
    req[r].score - (BidParamsOf.alpha * req[r].row[1].price) \div 100
                 - (BidParamsOf.gamma * Weight(req[r].user)) \div 10

\* C26: with the other inputs equal, the higher price, the shorter elapsed
\* time and the higher weight each give a strictly higher score; the time
\* term is beta at T = 0 and never more than beta
C26_ScoreMonotone ==
    /\ \A r, q \in Reqs :
           (Scored(r) /\ Scored(q))
           => LET a == req[r].row[1]
                  b == req[q].row[1]
                  wa == Weight(req[r].user)
                  wb == Weight(req[q].user)
              IN  /\ (a.time_elapsed_ms = b.time_elapsed_ms /\ wa = wb
                         /\ a.price < b.price)
                     => req[r].score < req[q].score
                  /\ (a.price = b.price /\ wa = wb
                         /\ a.time_elapsed_ms < b.time_elapsed_ms)
                     => req[r].score > req[q].score
                  /\ (a.price = b.price
                         /\ a.time_elapsed_ms = b.time_elapsed_ms /\ wa < wb)
                     => req[r].score < req[q].score
    /\ \A r \in Reqs :
           Scored(r)
           => /\ TimeTerm(r) <= BidParamsOf.beta * 10
              /\ req[r].row[1].time_elapsed_ms = 0
                 => TimeTerm(r) = BidParamsOf.beta * 10

\* the step is the commit of a call of p that returned (True, _)
CommitsDecrement(p) ==
    st[p].pc = "ret" /\ st[p].rowlock /\ ~st'[p].rowlock /\ st[p].ret = <<TRUE>>

\* calls that returned (True, _) and are not committed yet
UncommittedSuccesses(s) == {p \in Procs : s[p].ret = <<TRUE>> /\ s[p].rowlock}

C28_RollbackPolicy ==
    \A p \in Procs :
        st[p].pc = "ret"
        => IF st[p].ret = <<TRUE>>
           THEN st[p].dec = 1 /\ st[p].inc = 0
           ELSE st[p].inc = st[p].dec

\* C29: the version-checked update changes the row only when its version
\* is the one read under the row lock and its stock is >= 1, and then
\* takes 1 from the stock and adds 1 to the version; with any other
\* version no row is updated, ConcurrencyError is raised and the row stays
\* as it is; the version never decreases and the stock is never negative
C29_VersionCheckedUpdate ==
    [][dbProduct /= <<>>
       => /\ \A p \in Procs :
                 /\ (st[p].pc = "l4" /\ st'[p].exit = "ok")
                    => /\ dbProduct[1].version = st[p].seen
                       /\ dbProduct[1].stock >= 1
                       /\ st'[p].pending[1].stock = dbProduct[1].stock - 1
                       /\ st'[p].pending[1].version = dbProduct[1].version + 1
                 /\ (st[p].pc = "l4" /\ st'[p].exit = "conflict")
                    => /\ st'[p].pc = "rollback" /\ st'[p].pending = <<>>
                       /\ dbProduct' = dbProduct
                 /\ CommitsDecrement(p) => dbProduct' = st[p].pending
          /\ \A seen \in 0..(MaxStock + 1) :
                 (seen /= dbProduct[1].version \/ dbProduct[1].stock < 1)
                 => VersionCheckedUpdate(dbProduct[1], seen) = <<>>
          /\ dbProduct'[1].version >= dbProduct[1].version
          /\ dbProduct'[1].stock >= 0]_vars

\* the second successful update of a product: version 1 -> 2
C29_Witness ==
    \E p \in Procs :
        /\ st[p].exit = "ok" /\ st[p].rowlock
        /\ st[p].seen = 1
        /\ st[p].pending /= <<>>
        /\ dbProduct[1].version = 1

\* C30: a lock in place, also one whose holder is gone and will never
\* release it, is eventually gone, so that acquire_lock can succeed again
C30_LockEventuallyFree ==
    \A p \in Procs : (kvLock = <<p>>) ~> (kvLock = <<>>)

\* the holder has gone without releasing and its token is still in the lock
C30_Witness ==
    \E p \in Procs :
        /\ st[p].pc = "idle" /\ st[p].exit = "abandoned"
        /\ kvLock = <<p>>

\* the campaign is one that get_campaigns_to_settle lists
DueCampaign(c) == dbCampaign[c].status /= "ended" /\ dbCampaign[c].end < now

\* C31: every campaign whose end time has passed and whose status is not
\* ended is eventually settled while the pollers keep running; and an
\* exception raised while settling one campaign of a pass does not keep the
\* campaigns that follow it in that pass from being settled: each of them is
\* attempted on a usable session
C31_PollerSettlesEveryDue ==
    /\ \A c \in 1..2 : DueCampaign(c) ~> (dbCampaign[c].status = "ended")
    /\ [](\A p \in Procs :
            (poll[p].pc = "pass" /\ poll[p].due /= <<>>) => poll[p].session = "ok")

\* C32: when connect(campaign, user, ws) completes, the connection
\* registered for (campaign, user) is ws, and the connection it found
\* there, if any, has been closed and is registered nowhere
C32_ConnectReplaces ==
    [][\A w \in Socks :
        (sock[w].pc \in {"accepted", "closing"} /\ sock'[w].pc = "listening") =>
            /\ Registered(active_connections', sock[w].room, sock[w].user)
            /\ active_connections'[sock[w].room][sock[w].user] = w
            /\ sock[w].pc = "closing" =>
                    /\ ~sock'[sock[w].old[1]].open
                    /\ \A c \in DOMAIN active_connections' :
                         \A u \in DOMAIN active_connections'[c] :
                            active_connections'[c][u] /= sock[w].old[1]]_vars

\* a connect has replaced a connection that was still open when it began
C32_Witness ==
    \E w \in Socks :
        /\ sock[w].pc = "listening"
        /\ sock[w].old /= <<>>
        /\ sock[sock[w].old[1]].pc = "listening"
        /\ ~sock[sock[w].old[1]].open
        /\ Registered(active_connections, sock[w].room, sock[w].user)
        /\ active_connections[sock[w].room][sock[w].user] = w

\* C33: the hub holds no empty room, so a campaign id is a key exactly
\* when a connection is registered for it; and a disconnect of a user who
\* is not registered leaves the hub as it was
C33_NoEmptyRoom ==
    [][/\ \A c \in DOMAIN active_connections' : DOMAIN active_connections'[c] /= {}
       /\ \A w \in Socks :
            (sock[w].pc = "finally" /\ sock'[w].pc = "done"
             /\ ~Registered(active_connections, sock[w].room, sock[w].user))
                => active_connections' = active_connections
       /\ (bcast.pc = "disconnecting" /\ bcast' /= bcast /\ bcast.op = "send"
           /\ ~Registered(active_connections, bcast.room, bcast.user))
                => active_connections' = active_connections
       /\ \A u \in Clients :
            (bcast.pc = "disconnecting" /\ bcast.op = "broadcast"
             /\ u \in bcast.disconnected_users /\ u \notin bcast'.disconnected_users
             /\ ~Registered(active_connections, bcast.room, u))
                => active_connections' = active_connections]_vars

\* a room has been emptied and deleted, and a second disconnect of the same
\* user then found nothing to remove
C33_Witness ==
    \E w1 \in Socks, w2 \in Socks :
        /\ sock[w2].old = <<w1>>
        /\ sock[w1].pc = "done"
        /\ sock[w2].pc = "done"
        /\ sock[w2].room \notin DOMAIN active_connections
        /\ \E c \in Rooms : c \in DOMAIN active_connections

\* C34: broadcast_to_campaign attempts every connection of its snapshot
\* whatever the other sends do; when it returns, the connections whose send
\* failed are not registered and the count it returns is the number of
\* successful sends; no step of the broadcast unregisters a connection
\* whose send succeeded; send_to_user to a user who is not registered returns False
\* and changes nothing
C34_BroadcastDelivery ==
    [][/\ (bcast.op = "broadcast" /\ bcast.pc = "disconnecting" /\ bcast'.pc = "done") =>
            /\ DOMAIN bcast.results = DOMAIN bcast.connections
            /\ bcast'.ret = <<Cardinality({u \in DOMAIN bcast.connections :
                                              bcast.results[u]})>>
            /\ \A u \in DOMAIN bcast.connections :
                  ~bcast.results[u] =>
                      ~(/\ Registered(active_connections', bcast.room, u)
                        /\ active_connections'[bcast.room][u] = bcast.connections[u])
       /\ (bcast.op = "broadcast" /\ bcast' /= bcast) =>
            \A u \in DOMAIN bcast.results :
                (/\ bcast.results[u]
                 /\ Registered(active_connections, bcast.room, u)
                 /\ active_connections[bcast.room][u] = bcast.connections[u]) =>
                    /\ Registered(active_connections', bcast.room, u)
                    /\ active_connections'[bcast.room][u] = bcast.connections[u]
       /\ \A c \in Rooms, u \in Clients :
            (bcast.op = "none" /\ bcast'.op = "send" /\ bcast'.room = c /\ bcast'.user = u
             /\ ~Registered(active_connections, c, u)) =>
                /\ bcast'.ret = <<FALSE>>
                /\ active_connections' = active_connections]_vars

\* a broadcast to two connections has returned 1: one send failed, and that
\* user is gone from the room while the other is still there
C34_Witness ==
    /\ bcast.op = "broadcast"
    /\ bcast.pc = "done"
    /\ bcast.ret = <<1>>
    /\ \E u \in DOMAIN bcast.results, v \in DOMAIN bcast.results :
          /\ ~bcast.results[u]
          /\ bcast.results[v]
          /\ ~Registered(active_connections, bcast.room, u)
          /\ Registered(active_connections, bcast.room, v)
          /\ active_connections[bcast.room][v] = bcast.connections[v]

\* C38: a disconnect made on behalf of a connection (the clean-up of its
\* endpoint, or a send to it that failed) never unregisters another, newer
\* connection of the same (campaign, user)
C38_OldDisconnectSparesNewer ==
    [][/\ \A w \in Socks :
            (/\ sock[w].pc = "finally"
             /\ sock'[w].pc = "done"
             /\ Registered(active_connections, sock[w].room, sock[w].user)
             /\ active_connections[sock[w].room][sock[w].user] /= w)
                => active_connections' = active_connections
       /\ \A u \in Clients :
            (/\ bcast.pc = "disconnecting"
             /\ bcast' /= bcast
             /\ u \in DOMAIN bcast.connections
             /\ IF bcast.op = "send"
                THEN bcast.user = u
                ELSE u \in bcast.disconnected_users /\ u \notin bcast'.disconnected_users
             /\ Registered(active_connections, bcast.room, u)
             /\ active_connections[bcast.room][u] /= bcast.connections[u])
                => active_connections' = active_connections]_vars

\* C35: the stock counter never exceeds the value init_stock gave it (the
\* product's stock): a decrement that fails with the sentinel is not
\* followed by an increment, so a counter at 0 stays at 0
C35_CounterNeverAboveInitial ==
    (kvStock /= <<>> /\ dbProduct /= <<>>) => kvStock[1] <= dbProduct[1].stock

\* the step of p is settle_campaign leaving by an exception
SettleAborts(p) ==
    st[p].pc \in {"release", "finish"} /\ st'[p].pc = "idle" /\ st'[p].exit = "raise"

\* C36: when settle_campaign leaves by an exception before its commit, each
\* decrement it made on the stock counter has been answered by an
\* increment, so the counter is not lower than the call found it
C36_AbortRestoresCounter ==
    [][\A p \in Procs : SettleAborts(p) => st[p].dec <= st[p].inc]_vars

\* C39: settle_campaign holds the product lock only inside an iteration of
\* its loop: the lock it acquired is released with its token whether the
\* iteration adds an order, skips the winner or raises, so after the call
\* has returned or raised the lock does not carry its token
C39_SettleReleasesLock ==
    \A p \in Procs :
        kvLock = <<p>> => st[p].pc \in {"decr", "incr", "selectbid", "release"}

\* a call that raised inside an iteration is over and the lock is free
C39_Witness ==
    \E p \in Procs : st[p].pc = "idle" /\ st[p].exit = "raise" /\ kvLock = <<>>

\* C37: once no submission is in flight, every member of the ranking set
\* has the score of its durable bid row and its detail hash has the price
\* of that row (both as the columns of the row keep them), also when the
\* user's concurrent submissions reached the durable store and the ranking
\* set in different orders
C37_KvMatchesDurableBid ==
    BiddingQuiet =>
        \A u \in DOMAIN kvRanking :
            /\ u \in DOMAIN dbBids
            /\ RoundTo(kvRanking[u], ScoreScale) = dbBids[u].score
            /\ RoundTo(kvDetails[u], PriceScale) = dbBids[u].price

====
